---- MODULE Spec2Model ----
(***************************************************************************)
(* Open Aircraft Tracker: the tracking loop (main.py), the radar's list    *)
(* and screen (display/radar.py), the simulated data source (api/mock.py)  *)
(* and the HTTP adapters (api/opensky.py, api/adsbexchange.py).            *)
(***************************************************************************)
EXTENDS Integers, Sequences, FiniteSets, TLC

\* ------------------------------------------------------------------ bounds
NumIds == 2        \* how many distinct transponder ids the data source knows
RadiusKm == 2      \* AircraftTracker.radius_km
MaxFlights == 1    \* longest flight list of an HTTP response
MaxCollisions == 1 \* how often one tick's _generate_icao24 repeats a live id
MaxClock == 8      \* the latest MockAPI.last_update, in half seconds
MaxTicks == 2      \* ticks each of the MockAPI objects compared receives

IdNames == <<"a1", "b2", "c3", "d4">>
Ids == {IdNames[i] : i \in 1..NumIds}

\* base.py Aircraft, the field the tracking loop reads
Aircraft == [icao24 : Ids]

\* the lists over S that name no element twice, in any order
RECURSIVE ListsOf(_)
ListsOf(S) ==
    {<<>>} \cup UNION {{<<x>> \o l : l \in ListsOf(S \ {x})} : x \in S}

\* what `await self.api.get_aircraft_in_radius(...)` does: it raises, or it
\* returns a list
Raised == [raised |-> TRUE, list |-> <<>>]
Returned(l) == [raised |-> FALSE, list |-> l]
PollOutcomes == {Raised} \cup {Returned(l) : l \in ListsOf(Aircraft)}

Keys == {"q", "i", "x"}

\* Optional[float]: None, or a number
None == {}
Some(x) == {x}
Val(o) == CHOOSE x \in o : TRUE

\* no get_aircraft_by_callsign call was made yet
NoLookup == [called |-> FALSE, query |-> "", found |-> None]

\* no lookup by callsign at a provider yet
NotLookedUp == [raised |-> FALSE, aircraft |-> None]

\* `if response.status == 200`
HttpOk == 200

VARIABLES
    interactive,         \* AircraftTracker.interactive
    running,             \* AircraftTracker.running
    last_aircraft_set,   \* AircraftTracker.last_aircraft_set
    known_aircraft,      \* AircraftTracker.known_aircraft: icao24 -> Aircraft
    radar_aircraft_list, \* RadarDisplay.aircraft_list
    show_info,           \* RadarDisplay.show_info
    screen,              \* what the terminal shows
    pc,                  \* where run() is
    status,              \* how the latest update_aircraft call ended
    poll,                \* what the latest poll did (raised, or the list)
    new_aircraft,        \* the arrivals the latest call detected
    left_aircraft,       \* the departures the latest call detected
    plays,               \* SoundAlert.play() calls of the latest call
    stop_requested,      \* a 'q' was pressed or a signal was delivered
    api,                 \* which data source AircraftTracker.api is
    latitude,            \* AircraftTracker.latitude, the center (longitude is 0)
    http_status,         \* the status of the latest HTTP response
    num_aircraft,        \* MockAPI.num_aircraft
    aircraft_cache,      \* MockAPI.aircraft_cache, in insertion order
    mock_time_diff,      \* the time_diff the latest MockAPI call computed
    mock_result,         \* what the latest MockAPI.get_aircraft_in_radius returned
    last_update,         \* MockAPI.last_update, seconds since construction
    mock_calls,          \* MockAPI.get_aircraft_in_radius calls so far: 0, 1, or 2 for more
    callsign_result,     \* what the latest MockAPI.get_aircraft_by_callsign returned
    radar_center,        \* RadarDisplay.center_lat/center_lon: None, or the center
    glyphs,              \* the aircraft glyphs the latest _draw_aircraft printed
    rng,                 \* the module-level generator of `random`, per process
    sims,                \* the MockAPI objects compared for reproducibility
    sim_proc,            \* the process each of those objects lives in
    last_polled,         \* the id set of the latest poll that returned, or None
    http_seen,           \* the latest HTTP response held a record with seen > 0
    panel_rows,          \* the aircraft rows the latest _draw_info_panel printed
    requests,            \* the requests the latest callsign lookup of an adapter sent
    lookup_result,       \* what that lookup returned
    answers              \* what the provider answers to each kind of request

trackerVars == <<interactive, running, last_aircraft_set, known_aircraft,
                 radar_aircraft_list, show_info, screen, pc, status, poll,
                 new_aircraft, left_aircraft, plays, stop_requested>>
sourceVars == <<api, latitude, http_status, http_seen>>
mockVars == <<num_aircraft, aircraft_cache, mock_time_diff, mock_result,
              last_update, mock_calls, callsign_result>>
radarVars == <<radar_center, glyphs, panel_rows>>
seedVars == <<rng, sims, sim_proc>>
historyVars == <<last_polled>>
lookupVars == <<requests, lookup_result, answers>>
vars == <<trackerVars, sourceVars, mockVars, radarVars, seedVars, historyVars,
          lookupVars>>

\* ------------------------------------------------------------ the screen
\* "radar": the last thing printed is RadarDisplay.draw() of aircraft_list;
\* "error": the screen was cleared and the error message printed;
\* "blank": the screen was cleared
BlankScreen == "blank"
ErrorScreen == "error"
RadarScreen == "radar"

\* ------------------------------------------------- update_aircraft, parts
\* current_aircraft_set of main.py:134-136
IdSet(list) == {list[i].icao24 : i \in 1..Len(list)}

\* a variant: the map rebuilt from the list alone
UpdateKnownReplace(known, list) ==
    [x \in IdSet(list) |-> CHOOSE a \in {list[i] : i \in 1..Len(list)} : a.icao24 = x]

\* self.known_aircraft[aircraft.icao24] = aircraft, for each of the list
RECURSIVE UpdateKnown(_, _)
UpdateKnown(known, list) ==
    IF list = <<>> THEN known
    ELSE LET a == Head(list)
         IN UpdateKnown([x \in (DOMAIN known) \cup {a.icao24} |->
                            IF x = a.icao24 THEN a ELSE known[x]],
                        Tail(list))

\* new_aircraft = current_aircraft_set - self.last_aircraft_set
NewAircraft(current, last) == current \ last

\* a variant: the difference taken the wrong way round
LeftAircraftSwapped(last, current) == current \ last

\* left_aircraft = self.last_aircraft_set - current_aircraft_set
LeftAircraft(last, current) == last \ current

\* a variant: play() inside the loop over the new aircraft
PlayPerArrival(new) == Cardinality(new)

\* if new_aircraft: self.sound_alert.play()
PlayCalls(new) == IF new # {} THEN 1 ELSE 0

\* self.last_aircraft_set = current_aircraft_set
NextLastSet(current, last) == current

\* how far the try block of update_aircraft gets (main.py:122-177): the poll
\* raises (126), play() raises (147), draw() raises (174), or it reaches the end
TryEnd(outcome, new, play_raises, draw_raises) ==
    IF outcome.raised THEN "poll_failed"
    ELSE IF new # {} /\ play_raises THEN "play_failed"
    ELSE IF interactive /\ draw_raises THEN "draw_failed"
    ELSE "ok"

\* a variant: the except branch resets the map
KnownAfterReset(known, outcome) ==
    IF outcome.raised THEN [x \in {} |-> x] ELSE UpdateKnown(known, outcome.list)

\* known_aircraft after the call: the loop of main.py:135-137 runs only when the
\* poll returned; the except branch (179-186) touches nothing
KnownAfter(known, outcome) ==
    IF outcome.raised THEN known ELSE UpdateKnown(known, outcome.list)

\* a variant: the except branch leaves the screen alone
ScreenAfterKeep(end) == RadarScreen

\* the terminal after the call, interactive mode: draw() of the new list, or
\* the except branch's `print(self.term.clear())` and the error message
ScreenAfter(end) ==
    IF end = "ok" THEN RadarScreen ELSE ErrorScreen

\* whether SoundAlert.play() raises (sa.play_buffer, sound.py:98): it is called
\* only when the poll returned and new_aircraft is non-empty
PlayOutcomes(outcome) ==
    IF ~outcome.raised /\ NewAircraft(IdSet(outcome.list), last_aircraft_set) # {}
    THEN BOOLEAN ELSE {FALSE}

\* whether RadarDisplay.draw() raises: it is called only in interactive mode
\* and when the poll returned
DrawOutcomes(outcome) ==
    IF ~outcome.raised /\ interactive THEN BOOLEAN ELSE {FALSE}

\* AircraftTracker.update_aircraft, the whole call
update_aircraft(outcome, play_raises, draw_raises) ==
    LET current == IdSet(outcome.list)
        new == NewAircraft(current, last_aircraft_set)
        end == TryEnd(outcome, new, play_raises, draw_raises)
    IN  /\ poll' = outcome
        /\ status' = end
        /\ known_aircraft' = KnownAfter(known_aircraft, outcome)
        /\ new_aircraft' = IF end = "poll_failed" THEN {} ELSE new
        /\ plays' = IF end = "poll_failed" THEN 0 ELSE PlayCalls(new)
        /\ left_aircraft' = IF end \in {"poll_failed", "play_failed"} THEN {}
                            ELSE LeftAircraft(last_aircraft_set, current)
        /\ radar_aircraft_list' =
               IF interactive /\ end \in {"draw_failed", "ok"} THEN outcome.list
               ELSE radar_aircraft_list
        /\ last_aircraft_set' =
               IF end = "ok" THEN NextLastSet(current, last_aircraft_set)
               ELSE last_aircraft_set
        /\ screen' = IF interactive THEN ScreenAfter(end) ELSE screen
        /\ last_polled' = IF outcome.raised THEN last_polled ELSE Some(current)

\* ------------------------------------------------------------------ run()
EmptyMap == [x \in {} |-> x]

\* AircraftTracker.__init__
InitTracker ==
    /\ running = FALSE
    /\ last_aircraft_set = {}
    /\ known_aircraft = EmptyMap
    /\ radar_aircraft_list = <<>>
    /\ show_info = TRUE
    /\ screen = BlankScreen
    /\ pc = "init"
    /\ status = "none"
    /\ poll = Raised
    /\ new_aircraft = {}
    /\ left_aircraft = {}
    /\ plays = 0
    /\ stop_requested = FALSE
    /\ last_polled = None

\* MockAPI.__init__
InitMockAPI(n) ==
    /\ num_aircraft = n
    /\ aircraft_cache = <<>>
    /\ mock_time_diff = 0
    /\ mock_result = <<>>
    /\ last_update = 0
    /\ mock_calls = 0
    /\ callsign_result = NoLookup

\* AircraftTracker.__init__, main.py:102-109: the radar exists in interactive
\* mode only, and its center is set at once
InitTrackerRadar ==
    /\ radar_center = IF interactive THEN Some(latitude) ELSE None
    /\ glyphs = {}
    /\ panel_rows = <<>>

\* no MockAPI objects are being compared, no callsign is looked up at a
\* provider
NoSims ==
    /\ rng = <<>>
    /\ sims = <<>>
    /\ sim_proc = <<>>
    /\ requests = <<>>
    /\ lookup_result = NotLookedUp
    /\ answers = <<>>

\* AircraftTracker.update_aircraft polling a data source that raises or
\* returns any list
Init ==
    /\ InitTracker
    /\ InitMockAPI(0)
    /\ interactive \in BOOLEAN
    /\ api = "source"
    /\ latitude = 0
    /\ http_status = HttpOk
    /\ http_seen = FALSE
    /\ InitTrackerRadar
    /\ NoSims

\* run() up to the main loop: self.running = True, the signal handlers
RunStart ==
    /\ pc = "init"
    /\ running' = TRUE
    /\ pc' = "loop"
    /\ UNCHANGED <<interactive, last_aircraft_set, known_aircraft,
                   radar_aircraft_list, show_info, screen, status, poll,
                   new_aircraft, left_aircraft, plays, stop_requested>>
    /\ UNCHANGED <<sourceVars, mockVars, radarVars, seedVars,
                   historyVars, lookupVars>>

\* `while self.running: await self.update_aircraft()`
Poll ==
    /\ pc = "loop"
    /\ running
    /\ \E o \in PollOutcomes :
         \E play_raises \in PlayOutcomes(o), draw_raises \in DrawOutcomes(o) :
           update_aircraft(o, play_raises, draw_raises)
    /\ pc' = "wait"
    /\ UNCHANGED <<interactive, running, show_info, stop_requested>>
    /\ UNCHANGED <<sourceVars, mockVars, radarVars, seedVars, lookupVars>>

\* the wait ends with no key: inkey(timeout=update_interval) returns the empty
\* keystroke, or asyncio.sleep(update_interval) returns
WaitTimeout ==
    /\ pc = "wait"
    /\ pc' = "loop"
    /\ UNCHANGED <<interactive, running, last_aircraft_set, known_aircraft,
                   radar_aircraft_list, show_info, screen, status, poll,
                   new_aircraft, left_aircraft, plays, stop_requested>>
    /\ UNCHANGED <<sourceVars, mockVars, radarVars, seedVars,
                   historyVars, lookupVars>>

\* a key is pressed during the wait: inkey(timeout=...) returns it, the
\* condition of main.py:228 is true, and the key is dropped
WaitKey(k) ==
    /\ pc = "wait"
    /\ interactive
    /\ pc' = "inkey"
    /\ stop_requested' = (stop_requested \/ k = "q")
    /\ UNCHANGED <<interactive, running, last_aircraft_set, known_aircraft,
                   radar_aircraft_list, show_info, screen, status, poll,
                   new_aircraft, left_aircraft, plays>>
    /\ UNCHANGED <<sourceVars, mockVars, radarVars, seedVars,
                   historyVars, lookupVars>>

\* the finally block of run(): restore the terminal
Restored == IF interactive THEN BlankScreen ELSE screen

\* a variant: the key handler resets what the tracker holds
InkeyForgetting(k, draw_raises) ==
    /\ pc = "inkey"
    /\ pc' = "loop"
    /\ last_aircraft_set' = {}
    /\ known_aircraft' = EmptyMap
    /\ radar_aircraft_list' = <<>>
    /\ UNCHANGED <<interactive, running, show_info, screen, status, poll,
                   new_aircraft, left_aircraft, plays, stop_requested>>
    /\ UNCHANGED <<sourceVars, mockVars, radarVars, seedVars, historyVars,
                   lookupVars>>

\* `key = self.term.inkey()` (no timeout: it blocks until a key is pressed)
\* returns k, and the key is acted on
Inkey(k, draw_raises) ==
    /\ pc = "inkey"
    /\ stop_requested' = (stop_requested \/ k = "q")
    /\ IF k = "q"
       THEN /\ running' = FALSE
            /\ pc' = "done"
            /\ screen' = Restored
            /\ UNCHANGED show_info
       ELSE IF k = "i"
       THEN /\ show_info' = ~show_info
            /\ IF draw_raises
               THEN pc' = "crashed" /\ screen' = Restored
               ELSE pc' = "loop" /\ screen' = RadarScreen
            /\ UNCHANGED running
       ELSE /\ pc' = "loop"
            /\ UNCHANGED <<running, show_info, screen>>
    /\ UNCHANGED <<interactive, last_aircraft_set, known_aircraft,
                   radar_aircraft_list, status, poll, new_aircraft,
                   left_aircraft, plays>>
    /\ UNCHANGED <<sourceVars, mockVars, radarVars, seedVars,
                   historyVars, lookupVars>>

\* SIGINT or SIGTERM: handle_signal (main.py:200-209)
Signal ==
    /\ pc \in {"loop", "wait", "inkey"}
    /\ running' = FALSE
    /\ screen' = Restored
    /\ pc' = "exited"
    /\ stop_requested' = TRUE
    /\ UNCHANGED <<interactive, last_aircraft_set, known_aircraft,
                   radar_aircraft_list, show_info, status, poll,
                   new_aircraft, left_aircraft, plays>>
    /\ UNCHANGED <<sourceVars, mockVars, radarVars, seedVars,
                   historyVars, lookupVars>>

\* SIGINT or SIGTERM while update_aircraft is inside RadarDisplay.draw()
\* (main.py:174): Python runs handle_signal between two statements of the
\* redraw, and its sys.exit(0) raises SystemExit there; `except Exception`
\* (main.py:179) does not catch it, main.py:177 is not reached, and the
\* finally block of run() restores the terminal on the way out
SignalInDraw ==
    /\ pc = "loop"
    /\ running
    /\ interactive
    /\ \E list \in ListsOf(Aircraft) :
         LET current == IdSet(list)
             new == NewAircraft(current, last_aircraft_set)
         IN  /\ poll' = Returned(list)
             /\ status' = "draw_interrupted"
             /\ known_aircraft' = UpdateKnown(known_aircraft, list)
             /\ new_aircraft' = new
             /\ plays' = PlayCalls(new)
             /\ left_aircraft' = LeftAircraft(last_aircraft_set, current)
             /\ radar_aircraft_list' = list
             /\ last_polled' = Some(current)
    /\ running' = FALSE
    /\ screen' = Restored
    /\ pc' = "exited"
    /\ stop_requested' = TRUE
    /\ UNCHANGED <<interactive, last_aircraft_set, show_info>>
    /\ UNCHANGED <<sourceVars, mockVars, radarVars, seedVars, lookupVars>>

Next ==
    \/ RunStart
    \/ Poll
    \/ WaitTimeout
    \/ \E k \in Keys : WaitKey(k)
    \/ \E k \in Keys, draw_raises \in BOOLEAN : Inkey(k, draw_raises)
    \/ Signal
    \/ SignalInDraw

Spec == Init /\ [][Next]_vars

\* the event loop runs run() and its timers; nobody has to press a key or send
\* a signal
FairSpec ==
    Spec /\ WF_vars(RunStart) /\ WF_vars(Poll) /\ WF_vars(WaitTimeout)

\* ------------------------------------------------------ the HTTP adapters
\* the "hex" of a flight record: the key is missing, or it holds a string
Missing == "<missing>"
RawIds == {Missing, "", "A1"}

\* str.lower()
Lower(str) == IF str = "A1" THEN "a1" ELSE str

\* the flight records a provider answers for a center at latitude lat: at the
\* center, on the circle, one km outside it, or without a latitude; "seen" is
\* ADSBexchange's age of the record in seconds
FlightLats(lat) == {None} \cup {Some(lat + d) : d \in {0, RadiusKm, RadiusKm + 1}}
FlightLons == {None, Some(0)}
Flights(lat) == [hex : RawIds, lat : FlightLats(lat), lon : FlightLons, seen : {0, 1}]

RECURSIVE ListsUpTo(_, _)
ListsUpTo(S, n) ==
    IF n = 0 THEN {<<>>}
    ELSE LET shorter == ListsUpTo(S, n - 1)
         IN shorter \cup {Append(l, x) : l \in {t \in shorter : Len(t) = n - 1}, x \in S}

\* an HTTP response: its status and, for 200, the flight list of its JSON body
Responses(lat) ==
    {[status |-> st, body |-> <<>>] : st \in {204, 404, 500}}
        \cup {[status |-> HttpOk, body |-> b] : b \in ListsUpTo(Flights(lat), MaxFlights)}

\* aiohttp's ClientResponse.raise_for_status(): it raises for 400 and above
\* and returns None otherwise
raise_for_status(st) == st >= 400

\* _make_request: the JSON body for 200; else raise_for_status(), and when
\* that returns the function falls off its end and returns None
make_request(resp) ==
    IF resp.status = HttpOk THEN [raised |-> FALSE, none |-> FALSE, body |-> resp.body]
    ELSE IF raise_for_status(resp.status) THEN [raised |-> TRUE, none |-> FALSE, body |-> <<>>]
    ELSE [raised |-> FALSE, none |-> TRUE, body |-> <<>>]

\* geodesic(center, aircraft_pos).kilometers <= radius_km, on a km grid
InRadius(lat, a, r) ==
    LET dlat == Val(a.latitude) - lat
        dlon == Val(a.longitude) - 0
    IN dlat * dlat + dlon * dlon <= r * r

\* the filter both adapters apply to the parsed records
KeepAircraft(lat, a, r) ==
    /\ a.latitude # None
    /\ a.longitude # None
    /\ InRadius(lat, a, r)

\* ADSBexchangeAPI._parse_aircraft: icao24 = flight_data.get("hex", "").lower()
adsb_icao24(flight) == IF flight.hex = Missing THEN "" ELSE Lower(flight.hex)

\* ADSBexchangeAPI._parse_aircraft raises for a record with seen > 0:
\* `datetime.timedelta` is looked up on the class datetime.datetime
adsb_parse_raises(flight) == flight.seen # 0

adsb_parse_aircraft(flight) ==
    [icao24 |-> adsb_icao24(flight), latitude |-> flight.lat, longitude |-> flight.lon]

\* ADSBexchangeAPI.get_aircraft_in_radius
adsb_get_aircraft_in_radius(resp, lat, r) ==
    LET response == make_request(resp)
        flights == response.body
    IN  IF response.raised THEN Raised
        ELSE IF response.none THEN Returned(<<>>)
        ELSE IF \E i \in 1..Len(flights) : adsb_parse_raises(flights[i]) THEN Raised
        ELSE Returned(SelectSeq([i \in 1..Len(flights) |-> adsb_parse_aircraft(flights[i])],
                                LAMBDA a : KeepAircraft(lat, a, r)))

\* OpenSkyAPI._parse_state_vector: icao24 = state_vector[0], as it comes
opensky_parse_state_vector(flight) ==
    [icao24 |-> flight.hex, latitude |-> flight.lat, longitude |-> flight.lon]

\* abs()
Abs(x) == IF x < 0 THEN -x ELSE x

\* angles of the bounding box are in units of 10^-5 degree, lengths in metres
DegUnits == 100000

\* `lat_km = 110.574`, the length of a degree of latitude, in metres
lat_km == 110574

\* `lon_km = 111.320 * abs(float(latitude))`, in metres
lon_km(lat) == 111320 * Abs(lat)

\* the query parameters lamin, lamax, lomin, lomax of
\* OpenSkyAPI.get_aircraft_in_radius for a center at (lat, 0) degrees:
\* `radius_km / lon_km` raises ZeroDivisionError when lon_km is 0
bounding_box(lat, r) ==
    IF lon_km(lat) = 0
    THEN [raised |-> TRUE, lamin |-> 0, lamax |-> 0, lomin |-> 0, lomax |-> 0]
    ELSE LET lat_diff == (r * 1000 * DegUnits) \div lat_km
             lon_diff == (r * 1000 * DegUnits) \div lon_km(lat)
         IN  [raised |-> FALSE,
              lamin |-> lat * DegUnits - lat_diff,
              lamax |-> lat * DegUnits + lat_diff,
              lomin |-> 0 - lon_diff,
              lomax |-> lon_diff]

\* 1000 * math.cos(math.radians(lat)) for the center latitudes tried
Cos1000(lat) == IF Abs(lat) = 47 THEN 682 ELSE 1000

\* the length of a degree of longitude at latitude lat, in metres, as
\* MockAPI computes it: 111.320 * math.cos(math.radians(lat))
lon_km_cos(lat) == (111320 * Cos1000(lat)) \div 1000

\* the half-width in longitude and in latitude of the circle of radius r km
\* around (lat, 0)
circle_lon_diff(lat, r) == (r * 1000 * DegUnits) \div lon_km_cos(lat)
circle_lat_diff(r) == (r * 1000 * DegUnits) \div lat_km

\* OpenSkyAPI.get_aircraft_in_radius: the bounding box is computed before the
\* request is made
opensky_get_aircraft_in_radius(resp, lat, r) ==
    LET response == make_request(resp)
        states == response.body
    IN  IF bounding_box(lat, r).raised THEN Raised
        ELSE IF response.raised THEN Raised
        ELSE IF response.none THEN Returned(<<>>)
        ELSE Returned(SelectSeq([i \in 1..Len(states) |-> opensky_parse_state_vector(states[i])],
                                LAMBDA a : KeepAircraft(lat, a, r)))

get_aircraft_in_radius(which, resp, lat, r) ==
    IF which = "opensky" THEN opensky_get_aircraft_in_radius(resp, lat, r)
    ELSE adsb_get_aircraft_in_radius(resp, lat, r)

\* the center latitudes tried: the equator and Zurich's
CenterLats == {0, 47}

\* AircraftTracker.__init__ with api_type "opensky" or "adsbexchange",
\* non-interactive
InitAdapter ==
    /\ InitTracker
    /\ InitMockAPI(0)
    /\ interactive = FALSE
    /\ api \in {"opensky", "adsbexchange"}
    /\ latitude \in CenterLats
    /\ http_status = HttpOk
    /\ http_seen = FALSE
    /\ InitTrackerRadar
    /\ NoSims

\* `while self.running: await self.update_aircraft()`, the poll answered by
\* an HTTP response
PollAdapter ==
    /\ pc = "loop"
    /\ running
    /\ \E resp \in Responses(latitude) :
         LET o == get_aircraft_in_radius(api, resp, latitude, RadiusKm)
         IN  /\ \E play_raises \in PlayOutcomes(o), draw_raises \in DrawOutcomes(o) :
                   update_aircraft(o, play_raises, draw_raises)
             /\ http_status' = resp.status
             /\ http_seen' = \E i \in 1..Len(resp.body) : resp.body[i].seen > 0
    /\ pc' = "wait"
    /\ UNCHANGED <<interactive, running, show_info, stop_requested, api, latitude>>
    /\ UNCHANGED <<mockVars, radarVars, seedVars, lookupVars>>

NextAdapter ==
    \/ RunStart
    \/ PollAdapter
    \/ WaitTimeout
    \/ Signal

SpecAdapter == InitAdapter /\ [][NextAdapter]_vars

\* ----------------------- get_aircraft_by_callsign of AviationStack and AirLabs
\* the query parameters a flight can be looked up by, in the order IATA code,
\* ICAO code, flight number
Strategies == <<"flight_iata", "flight_icao", "flight_number">>
StrategyIndex(param) == CHOOSE i \in 1..Len(Strategies) : Strategies[i] = param

\* the parameters AviationStackAPI.get_aircraft_by_callsign asks by, in the
\* order of its requests (aviationstack.py:172, 189, 206)
aviationstack_strategies == <<"flight_iata", "flight_icao", "flight_number">>

\* the parameters AirLabsAPI.get_aircraft_by_callsign asks by, in the order of
\* its requests (airlabs.py:160, 173)
airlabs_strategies == <<"flight_icao", "flight_iata">>

strategies_of(which) ==
    IF which = "aviationstack" THEN aviationstack_strategies ELSE airlabs_strategies

\* a flight of a provider's answer, with or without live data
LookupFlights == [hex : {"A1"}, live : BOOLEAN] \cup {[hex |-> "B2", live |-> TRUE]}

\* a provider's answer to one request: an error status, or 200 with no
\* flight, one flight, or a flight without live data followed by one with
LookupAnswers ==
    {[status |-> 500, body |-> <<>>], [status |-> HttpOk, body |-> <<>>]}
        \cup {[status |-> HttpOk, body |-> <<f>>] : f \in {x \in LookupFlights : x.hex = "A1"}}
        \cup {[status |-> HttpOk,
               body |-> <<[hex |-> "A1", live |-> FALSE], [hex |-> "B2", live |-> TRUE]>>]}

\* what the provider would answer to a request by each parameter of Strategies
AnswerTables == [1..Len(Strategies) -> LookupAnswers]

\* the flights of a response an adapter makes an aircraft of: AviationStack
\* skips the flights without live data (aviationstack.py:181-185), AirLabs
\* takes the flight of the response as it is (airlabs.py:167-169)
usable_flights(which, body) ==
    IF which = "aviationstack" THEN SelectSeq(body, LAMBDA f : f.live) ELSE body

\* the body of get_aircraft_by_callsign from its k-th request on: the
\* parameters requested and what is returned
RECURSIVE try_strategies(_, _, _)
try_strategies(which, table, k) ==
    IF k > Len(strategies_of(which))
    THEN [requests |-> <<>>, result |-> [raised |-> FALSE, aircraft |-> None]]
    ELSE LET param == strategies_of(which)[k]
             response == make_request(table[StrategyIndex(param)])
             flights == usable_flights(which, response.body)
         IN  IF response.raised
             THEN [requests |-> <<param>>, result |-> [raised |-> TRUE, aircraft |-> None]]
             ELSE IF flights # <<>>
             THEN [requests |-> <<param>>,
                   result |-> [raised |-> FALSE, aircraft |-> Some(flights[1])]]
             ELSE LET rest == try_strategies(which, table, k + 1)
                  IN  [requests |-> <<param>> \o rest.requests, result |-> rest.result]

\* AviationStackAPI / AirLabsAPI .get_aircraft_by_callsign(callsign), the
\* provider answering by `table`
lookup_by_callsign(table) ==
    LET outcome == try_strategies(api, table, 1)
    IN  /\ answers' = table
        /\ requests' = outcome.requests
        /\ lookup_result' = outcome.result
        /\ UNCHANGED <<trackerVars, sourceVars, mockVars, radarVars, seedVars,
                       historyVars>>

InitLookup ==
    /\ InitTracker
    /\ InitMockAPI(0)
    /\ interactive = FALSE
    /\ api \in {"aviationstack", "airlabs"}
    /\ latitude = 0
    /\ http_status = HttpOk
    /\ http_seen = FALSE
    /\ InitTrackerRadar
    /\ NoSims

NextLookup == \E table \in AnswerTables : lookup_by_callsign(table)

SpecLookup == InitLookup /\ [][NextLookup]_vars

\* ------------------------------------------------------------- MockAPI
\* Positions are hectometres north of the query center, along its meridian:
\* bearings and headings are 0 (north) or 180 (south), so the flat-Earth
\* offset and the geodesic distance are both the difference of positions.

\* math.cos(math.radians(h)) for h in {0, 180}
Cos(h) == IF h = 0 THEN 1 ELSE -1

\* (current_time - self.last_update).total_seconds(): times are counted in
\* half seconds, so that a time below one second is not zero
TicksPerSecond == 2

\* velocity_kmh = velocity * 3.6; distance_km = velocity_kmh * time_diff / 3600
\* (here times 10: in hectometres; time_diff in half seconds)
distance_hm(velocity, time_diff) ==
    (velocity * 36 * time_diff) \div (3600 * TicksPerSecond)

\* geodesic(center_pos, aircraft_pos).kilometers, in hectometres; the center is 0
distance(a) == Abs(Val(a.latitude) - 0)

\* mock.py:67-100: the aircraft moved along its heading; one without position,
\* heading or velocity is skipped
advance(a, time_diff) ==
    IF a.latitude = None \/ a.heading = None \/ a.velocity = None THEN a
    ELSE [a EXCEPT !.latitude =
             Some(Val(a.latitude)
                  + distance_hm(Val(a.velocity), time_diff) * Cos(Val(a.heading)))]

\* mock.py:102-108: `if distance > max_radius_km * 2: del`
retired(a, max_radius) ==
    /\ ~(a.latitude = None \/ a.heading = None \/ a.velocity = None)
    /\ distance(a) > max_radius * 2

\* mock.py:65-108, the loop over the cache
UpdateExisting(cache, time_diff, max_radius) ==
    SelectSeq([i \in 1..Len(cache) |-> advance(cache[i], time_diff)],
              LAMBDA a : ~retired(a, max_radius))

\* random.uniform(max_radius_km * 0.8, max_radius_km * 1.5), whole hectometres
SpawnDistances(max_radius) ==
    {d \in 0..(2 * max_radius) : 10 * d >= 8 * max_radius /\ 10 * d <= 15 * max_radius}

\* the ids _generate_icao24 draws from
MockIds == {"a1", "b2"}

\* mock.py:113-146: a new aircraft with the id `id` (_generate_icao24)
NewAircraftWithId(id, max_radius) ==
    [icao24 : {id},
     latitude : {Some(0 + d * Cos(bearing)) :
                     d \in SpawnDistances(max_radius), bearing \in {0, 180}},
     heading : {Some(0), Some(180)},
     velocity : {Some(200), Some(300)}]

CacheIds(cache) == {cache[i].icao24 : i \in 1..Len(cache)}

\* the caches the loop of mock.py:111-146 makes of a cache by drawing ids
\* that are already in it, at most `collisions` times:
\* `self.aircraft_cache[icao24] = Aircraft(...)` then replaces the value under
\* that key, which keeps its place
RECURSIVE Overwritten(_, _, _)
Overwritten(cache, max_radius, collisions) ==
    IF cache = <<>> THEN {<<>>}
    ELSE {<<cache[1]>> \o rest : rest \in Overwritten(Tail(cache), max_radius, collisions)}
         \cup (IF collisions = 0 THEN {}
               ELSE {<<a>> \o rest :
                        a \in NewAircraftWithId(cache[1].icao24, max_radius),
                        rest \in Overwritten(Tail(cache), max_radius, collisions - 1)})

\* the m new entries the loop appends: ids not yet in the cache, each once
RECURSIVE Appended(_, _, _)
Appended(used, m, max_radius) ==
    IF m = 0 THEN {<<>>}
    ELSE UNION {{<<a>> \o rest :
                    a \in NewAircraftWithId(id, max_radius),
                    rest \in Appended(used \cup {id}, m - 1, max_radius)} :
                 id \in MockIds \ used}

\* a variant: `if` in place of `while`, at most one aircraft is generated
FillOnce(cache, n, max_radius, collisions) ==
    IF Len(cache) >= n THEN {cache}
    ELSE {old \o new :
             old \in Overwritten(cache, max_radius, collisions),
             new \in Appended(CacheIds(cache), 1, max_radius)}

\* mock.py:111-146, `while len(self.aircraft_cache) < self.num_aircraft`:
\* every cache the loop can end with. It runs until n keys are held; an
\* iteration whose id is new appends an entry, one whose id is held replaces
\* that entry by a newly drawn aircraft.
Fill(cache, n, max_radius, collisions) ==
    IF Len(cache) >= n THEN {cache}
    ELSE {old \o new :
             old \in Overwritten(cache, max_radius, collisions),
             new \in Appended(CacheIds(cache), n - Len(cache), max_radius)}

\* a variant: no early return
update_always(cache, n, time_diff, max_radius) ==
    Fill(UpdateExisting(cache, time_diff, max_radius), n, max_radius, MaxCollisions)

\* MockAPI._update_aircraft_positions: every cache it can leave
update_aircraft_positions(cache, n, time_diff, max_radius) ==
    IF time_diff < 1 * TicksPerSecond THEN {cache}
    ELSE Fill(UpdateExisting(cache, time_diff, max_radius), n, max_radius, MaxCollisions)

\* MockAPI.last_update after _update_aircraft_positions: current_time is
\* last_update + time_diff; it is stored at the end (mock.py:148), which the
\* early return of mock.py:61-62 does not reach
last_update_after(last, time_diff) ==
    IF time_diff < 1 * TicksPerSecond THEN last ELSE last + time_diff

\* a variant: the boundary left out
in_radius_strict(a, radius) ==
    /\ a.latitude # None
    /\ distance(a) < radius

\* mock.py:169-180: the filter of get_aircraft_in_radius
in_radius(a, radius) ==
    /\ a.latitude # None
    /\ distance(a) <= radius

\* the query radii tried (hectometres) and the time since last_update a call
\* can see: none, half a second, one second, two seconds
Radii == {1}
TimeDiffs == {0, 1, 2, 4}

\* MockAPI.get_aircraft_in_radius(0, 0, radius), time_diff seconds after the
\* last effective tick
mock_get_aircraft_in_radius(radius, time_diff) ==
    /\ last_update + time_diff <= MaxClock
    /\ aircraft_cache' \in
           update_aircraft_positions(aircraft_cache, num_aircraft, time_diff, radius * 3)
    /\ last_update' = last_update_after(last_update, time_diff)
    /\ mock_result' = SelectSeq(aircraft_cache', LAMBDA a : in_radius(a, radius))
    /\ mock_time_diff' = time_diff
    /\ mock_calls' = IF mock_calls < 2 THEN mock_calls + 1 ELSE mock_calls
    /\ UNCHANGED <<num_aircraft, callsign_result, trackerVars, sourceVars,
                   radarVars, seedVars,
                   historyVars, lookupVars>>

InitMock ==
    /\ InitTracker
    /\ interactive = FALSE
    /\ api = "mock"
    /\ latitude = 0
    /\ http_status = HttpOk
    /\ http_seen = FALSE
    /\ InitTrackerRadar
    /\ NoSims
    /\ \E n \in {1, 2} : InitMockAPI(n)

NextMock ==
    \E radius \in Radii, time_diff \in TimeDiffs :
        mock_get_aircraft_in_radius(radius, time_diff)

SpecMock == InitMock /\ [][NextMock]_vars

\* ------------------------------------------------------- RadarDisplay
\* Positions are whole kilometres north and east of a reference point; the
\* aircraft tried lie on the center's meridian or parallel, where the
\* geodesic distance is the offset and the bearing is 0, 90, 180 or 270.
TermWidth == 80
TermHeight == 24

\* RadarDisplay.__init__, radar.py:49-51
center_x == TermWidth \div 2
center_y == TermHeight \div 2
radar_radius == (IF center_x < center_y THEN center_x ELSE center_y) - 5

\* int(a / b) for b > 0: the quotient cut towards zero
IntQuot(a, b) == IF a >= 0 THEN a \div b ELSE -((-a) \div b)

\* RadarDisplay._calculate_screen_position: Some(<<x, y>>); center is None or
\* Some(<<north, east>>); (0, 0) when the center or the position is missing
calculate_screen_position(center, aircraft, radius_km) ==
    IF center = None \/ aircraft.latitude = None \/ aircraft.longitude = None
    THEN Some(<<0, 0>>)
    ELSE LET north == Val(aircraft.latitude) - Val(center)[1]
             east == Val(aircraft.longitude) - Val(center)[2]
         IN  Some(<<center_x + IntQuot(radar_radius * east, radius_km),
                    center_y - IntQuot(radar_radius * north, radius_km)>>)

\* radar.py:230: 0 <= x < self.term.width and 0 <= y < self.term.height
OnScreen(xy) ==
    /\ 0 <= xy[1] /\ xy[1] < TermWidth
    /\ 0 <= xy[2] /\ xy[2] < TermHeight

\* radar.py:223: an aircraft without latitude or longitude is skipped
HasPosition(aircraft) == aircraft.latitude # None /\ aircraft.longitude # None

\* RadarDisplay._draw_aircraft: the cells that get an aircraft glyph, each
\* with the id of its aircraft
draw_aircraft(center, list, radius_km) ==
    {[icao24 |-> list[i].icao24,
      cell |-> Val(calculate_screen_position(center, list[i], radius_km))] :
        i \in {j \in 1..Len(list) :
                  /\ HasPosition(list[j])
                  /\ OnScreen(Val(calculate_screen_position(center, list[j], radius_km)))}}

\* geodesic((center_lat, center_lon), ...): geopy reads a missing coordinate
\* of the center as 0.0
CenterOrOrigin(center) == IF center = None THEN <<0, 0>> ELSE Val(center)

\* the sort key of radar.py:310-313 for an aircraft on the center's meridian
\* or parallel
panel_distance(center, aircraft) ==
    Abs(Val(aircraft.latitude) - CenterOrOrigin(center)[1])
        + Abs(Val(aircraft.longitude) - CenterOrOrigin(center)[2])

\* sorted(..., key=...), which is stable: x goes behind every element whose
\* key is not larger
RECURSIVE InsertByDistance(_, _, _)
InsertByDistance(center, sorted, x) ==
    IF sorted = <<>> THEN <<x>>
    ELSE LET last == sorted[Len(sorted)]
         IN  IF panel_distance(center, last) <= panel_distance(center, x)
             THEN Append(sorted, x)
             ELSE Append(InsertByDistance(center, SubSeq(sorted, 1, Len(sorted) - 1), x),
                         last)

RECURSIVE SortedByDistance(_, _)
SortedByDistance(center, list) ==
    IF list = <<>> THEN <<>>
    ELSE InsertByDistance(center,
                          SortedByDistance(center, SubSeq(list, 1, Len(list) - 1)),
                          list[Len(list)])

\* radar.py:275: min(len(self.aircraft_list) + 4, self.term.height - 2)
panel_height(list) ==
    IF Len(list) + 4 < TermHeight - 2 THEN Len(list) + 4 ELSE TermHeight - 2

\* RadarDisplay._draw_info_panel: the aircraft of the rows it prints, from the
\* top; the loop of radar.py:317-319 stops at row panel_height - 5
draw_info_panel(show, center, list) ==
    IF ~show THEN <<>>
    ELSE LET sorted_aircraft == SortedByDistance(center, SelectSeq(list, HasPosition))
             limit == panel_height(list) - 5
             n == IF limit < 0 THEN 0
                  ELSE IF limit < Len(sorted_aircraft) THEN limit
                  ELSE Len(sorted_aircraft)
         IN  SubSeq(sorted_aircraft, 1, n)

\* the positions of the aircraft handed to the radar: none, a latitude only,
\* the center, on the circle to the north, one km west, far to the north
RadarPositions ==
    {<<None, None>>, <<Some(1), None>>, <<Some(0), Some(0)>>,
     <<Some(RadiusKm), Some(0)>>, <<Some(0), Some(-1)>>, <<Some(10 * RadiusKm), Some(0)>>}

RadarAircraft ==
    {[icao24 |-> id, latitude |-> p[1], longitude |-> p[2]] :
        id \in MockIds, p \in RadarPositions}

\* the lists of up to two aircraft with different ids
RadarLists ==
    {<<>>} \cup {<<a>> : a \in RadarAircraft}
           \cup {<<a, b>> : a \in {x \in RadarAircraft : x.icao24 = "a1"},
                            b \in {x \in RadarAircraft : x.icao24 = "b2"}}

\* RadarDisplay(term, radius_km=RadiusKm), on its own
InitRadar ==
    /\ InitTracker
    /\ InitMockAPI(0)
    /\ interactive = TRUE
    /\ api = "source"
    /\ latitude = 0
    /\ http_status = HttpOk
    /\ http_seen = FALSE
    /\ NoSims
    /\ radar_center = None
    /\ glyphs = {}
    /\ panel_rows = <<>>

\* RadarDisplay.set_center
set_center(north, east) ==
    /\ radar_center' = Some(<<north, east>>)
    /\ UNCHANGED <<glyphs, panel_rows, trackerVars, sourceVars, mockVars, seedVars,
                   historyVars, lookupVars>>

\* RadarDisplay.set_aircraft_list
set_aircraft_list(list) ==
    /\ radar_aircraft_list' = list
    /\ UNCHANGED <<interactive, running, last_aircraft_set, known_aircraft,
                   show_info, screen, pc, status, poll, new_aircraft,
                   left_aircraft, plays, stop_requested>>
    /\ UNCHANGED <<sourceVars, mockVars, radarVars, seedVars,
                   historyVars, lookupVars>>

\* RadarDisplay.draw: the screen is cleared and drawn anew
draw ==
    /\ glyphs' = draw_aircraft(radar_center, radar_aircraft_list, RadiusKm)
    /\ panel_rows' = draw_info_panel(show_info, radar_center, radar_aircraft_list)
    /\ screen' = RadarScreen
    /\ UNCHANGED <<interactive, running, last_aircraft_set, known_aircraft,
                   radar_aircraft_list, show_info, pc, status, poll,
                   new_aircraft, left_aircraft, plays, stop_requested>>
    /\ UNCHANGED <<radar_center, sourceVars, mockVars, seedVars,
                   historyVars, lookupVars>>

\* RadarDisplay.toggle_info_panel
toggle_info_panel ==
    /\ show_info' = ~show_info
    /\ UNCHANGED <<interactive, running, last_aircraft_set, known_aircraft,
                   radar_aircraft_list, screen, pc, status, poll,
                   new_aircraft, left_aircraft, plays, stop_requested>>
    /\ UNCHANGED <<sourceVars, mockVars, radarVars, seedVars, historyVars,
                   lookupVars>>

NextRadar ==
    \/ set_center(0, 0)
    \/ \E list \in RadarLists : set_aircraft_list(list)
    \/ draw
    \/ toggle_info_panel

SpecRadar == InitRadar /\ [][NextRadar]_vars

\* ------------------------------------------ MockAPI.get_aircraft_by_callsign
\* what _generate_callsign makes: an airline code and a flight number
GeneratedCallsigns == {"SWR100", "DLH200"}

\* the callsigns asked for: those two in other letter cases and with
\* surrounding whitespace, one that is not generated, and the empty string
Queries == {"SWR100", "swr100", " Swr100 ", "DLH200", "dlh200 ", "KLM300", ""}

\* str.strip()
Strip(str) ==
    CASE str = " Swr100 " -> "Swr100"
      [] str = "dlh200 " -> "dlh200"
      [] OTHER -> str

\* str.upper()
Upper(str) ==
    CASE str \in {"swr100", "Swr100"} -> "SWR100"
      [] str = " Swr100 " -> " SWR100 "
      [] str = "dlh200" -> "DLH200"
      [] str = "dlh200 " -> "DLH200 "
      [] OTHER -> str

\* a variant: the whitespace kept
normalize_upper_only(str) == Upper(str)

\* callsign.strip().upper()
normalize(str) == Upper(Strip(str))

\* the aircraft of mock.py:135-146 with its callsign
AircraftWithCallsign(id, max_radius) ==
    {[icao24 |-> a.icao24, callsign |-> c, latitude |-> a.latitude,
      heading |-> a.heading, velocity |-> a.velocity] :
         a \in NewAircraftWithId(id, max_radius), c \in GeneratedCallsigns}

\* mock.py:198-208: the first aircraft of the cache whose callsign is not
\* empty and matches, or None
get_aircraft_by_callsign(cache, callsign) ==
    LET normalized_callsign == normalize(callsign)
        hits == {i \in 1..Len(cache) :
                    /\ cache[i].callsign # ""
                    /\ normalize(cache[i].callsign) = normalized_callsign}
    IN  IF hits = {} THEN None
        ELSE Some(cache[CHOOSE i \in hits : \A j \in hits : i <= j])

\* a MockAPI whose cache holds up to two spawned aircraft (query radius 1)
InitCallsign ==
    /\ InitTracker
    /\ interactive = FALSE
    /\ api = "mock"
    /\ latitude = 0
    /\ http_status = HttpOk
    /\ http_seen = FALSE
    /\ InitTrackerRadar
    /\ NoSims
    /\ num_aircraft = 2
    /\ mock_time_diff = 0
    /\ mock_result = <<>>
    /\ last_update = 0
    /\ mock_calls = 0
    /\ callsign_result = NoLookup
    /\ aircraft_cache \in
           {<<>>}
           \cup {<<a>> : a \in UNION {AircraftWithCallsign(id, 3) : id \in MockIds}}
           \cup {<<a, b>> : a \in AircraftWithCallsign("a1", 3),
                            b \in AircraftWithCallsign("b2", 3)}

\* await api.get_aircraft_by_callsign(callsign)
mock_get_aircraft_by_callsign(callsign) ==
    /\ callsign_result' = [called |-> TRUE, query |-> callsign,
                           found |-> get_aircraft_by_callsign(aircraft_cache, callsign)]
    /\ UNCHANGED <<num_aircraft, aircraft_cache, mock_time_diff, mock_result,
                   last_update, mock_calls>>
    /\ UNCHANGED <<trackerVars, sourceVars, radarVars, seedVars,
                   historyVars, lookupVars>>

NextCallsign == \E callsign \in Queries : mock_get_aircraft_by_callsign(callsign)

SpecCallsign == InitCallsign /\ [][NextCallsign]_vars

\* ------------------------------------------ MockAPI and the seeded generator
\* `random.seed(seed)` (mock.py:35-36) and every random.uniform, random.choice
\* and random.choices of mock.py act on the one generator of the module
\* `random`, which all MockAPI objects of a process share. The generator is
\* [seed, pos]: the seed it was last seeded with and how many aircraft were
\* drawn from it since.
Sims == {"A", "B"}
Procs == {1, 2}
Seeds == {1, 2}

\* the num_aircraft of the objects compared
SimTarget == 2

\* the stream of a seed: a fixed function of the seed and the position, as a
\* pseudo-random generator is
StreamValue(seed, pos) == (seed + 3 * pos) % 8

\* mock.py:113-146 on the draws at position g.pos of the stream of g.seed
Drawn(g, max_radius) ==
    LET k == StreamValue(g.seed, g.pos)
        ds == SpawnDistances(max_radius)
        d == IF (k \div 2) % 2 = 0 THEN CHOOSE x \in ds : \A y \in ds : x <= y
             ELSE CHOOSE x \in ds : \A y \in ds : x >= y
    IN  [icao24 |-> IF k % 2 = 0 THEN "a1" ELSE "b2",
         latitude |-> Some(IF k \div 4 = 0 THEN d ELSE -d),
         heading |-> Some(IF k \in {0, 3, 5, 6} THEN 0 ELSE 180),
         velocity |-> Some(IF k \in {0, 1, 6, 7} THEN 200 ELSE 300)]

\* self.aircraft_cache[icao24] = Aircraft(...): a held key keeps its place
Upsert(cache, a) ==
    IF a.icao24 \in CacheIds(cache)
    THEN [i \in 1..Len(cache) |-> IF cache[i].icao24 = a.icao24 THEN a ELSE cache[i]]
    ELSE Append(cache, a)

\* mock.py:111-146, `while len(self.aircraft_cache) < self.num_aircraft`, with
\* the generator g: the cache and the generator the loop ends with
RECURSIVE FillFrom(_, _, _, _)
FillFrom(cache, n, max_radius, g) ==
    IF Len(cache) >= n THEN [cache |-> cache, rng |-> g]
    ELSE FillFrom(Upsert(cache, Drawn(g, max_radius)), n, max_radius,
                  [g EXCEPT !.pos = @ + 1])

\* MockAPI._update_aircraft_positions with the generator g
seeded_update(cache, n, time_diff, max_radius, g) ==
    IF time_diff < 1 * TicksPerSecond THEN [cache |-> cache, rng |-> g]
    ELSE FillFrom(UpdateExisting(cache, time_diff, max_radius), n, max_radius, g)

\* before MockAPI(...) is called
NotMade == [made |-> FALSE, seed |-> 0, cache |-> <<>>, ticks |-> <<>>, log |-> <<>>]

\* two MockAPI objects to be made, in one process or in two; the generator of
\* a process starts seeded by the interpreter (seed 0)
InitSeed ==
    /\ InitTracker
    /\ InitMockAPI(0)
    /\ interactive = FALSE
    /\ api = "mock"
    /\ latitude = 0
    /\ http_status = HttpOk
    /\ http_seen = FALSE
    /\ InitTrackerRadar
    /\ sims = [s \in Sims |-> NotMade]
    /\ sim_proc \in {[s \in Sims |-> 1], [s \in Sims |-> IF s = "A" THEN 1 ELSE 2]}
    /\ rng = [p \in Procs |-> [seed |-> 0, pos |-> 0]]
    /\ requests = <<>>
    /\ lookup_result = NotLookedUp
    /\ answers = <<>>

\* MockAPI(num_aircraft=SimTarget, seed=seed)
MockAPIInit(s, seed) ==
    /\ ~sims[s].made
    /\ sims' = [sims EXCEPT ![s] = [made |-> TRUE, seed |-> seed, cache |-> <<>>,
                                    ticks |-> <<>>, log |-> <<>>]]
    /\ rng' = [rng EXCEPT ![sim_proc[s]] = [seed |-> seed, pos |-> 0]]
    /\ UNCHANGED <<sim_proc, trackerVars, sourceVars, mockVars, radarVars,
                   historyVars, lookupVars>>

\* a tick of the object s, time_diff after its last effective tick; `log`
\* keeps the cache each tick left (the ids, the positions, who was retired)
SimTick(s, time_diff, radius) ==
    /\ sims[s].made
    /\ Len(sims[s].ticks) < MaxTicks
    /\ LET r == seeded_update(sims[s].cache, SimTarget, time_diff, radius * 3,
                              rng[sim_proc[s]])
       IN  /\ sims' = [sims EXCEPT ![s].cache = r.cache,
                                   ![s].ticks = Append(@, time_diff),
                                   ![s].log = Append(@, r.cache)]
           /\ rng' = [rng EXCEPT ![sim_proc[s]] = r.rng]
    /\ UNCHANGED <<sim_proc, trackerVars, sourceVars, mockVars, radarVars,
                   historyVars, lookupVars>>

NextSeed ==
    \/ \E s \in Sims, seed \in Seeds : MockAPIInit(s, seed)
    \/ \E s \in Sims, time_diff \in TimeDiffs, radius \in Radii :
           SimTick(s, time_diff, radius)

SpecSeed == InitSeed /\ [][NextSeed]_vars

\* ------------------------------------------------ claims: the tracking loop
\* a step of the model that is one whole update_aircraft call
UpdateStep == pc = "loop" /\ pc' \in {"wait", "crashed", "done"}

\* C1: for two consecutive update_aircraft calls that both ran to their end,
\* with polled id sets S1 then S2, the second call computes
\* new_aircraft = S2 \ S1 and left_aircraft = S1 \ S2 and ends with
\* last_aircraft_set = S2.
C1_DiffOfConsecutivePolls ==
    [][(UpdateStep /\ status = "ok" /\ status' = "ok") =>
          /\ new_aircraft' = IdSet(poll'.list) \ IdSet(poll.list)
          /\ left_aircraft' = IdSet(poll.list) \ IdSet(poll'.list)
          /\ last_aircraft_set' = IdSet(poll'.list)]_vars

\* C1 witness: a completed call that saw both an arrival and a departure
C1_Witness ==
    /\ status = "ok"
    /\ new_aircraft # {}
    /\ left_aircraft # {}
    /\ last_aircraft_set = IdSet(poll.list)

\* C2: when the data source returns the same list in two consecutive calls,
\* the second call detects no arrival and no departure and plays no alert,
\* whatever play() and draw() did during the first call.
C2_SameListNoChange ==
    [][(UpdateStep /\ ~poll.raised /\ ~poll'.raised /\ poll'.list = poll.list) =>
          /\ new_aircraft' = {}
          /\ left_aircraft' = {}
          /\ plays' = 0]_vars

\* C3: in every update cycle play() is called exactly once if the set of
\* arrived ids is non-empty, however many arrived, and not at all if that set
\* is empty or the poll failed.
C3_AlertOncePerCycle ==
    [][UpdateStep =>
          plays' = IF ~poll'.raised /\ IdSet(poll'.list) \ last_aircraft_set # {}
                   THEN 1 ELSE 0]_vars

\* C3 witness: two aircraft arrived in one cycle and the alert played once
C3_Witness == Cardinality(new_aircraft) >= 2 /\ plays = 1

\* C4: if the poll raises, update_aircraft returns normally to run() and
\* last_aircraft_set, known_aircraft and the radar's aircraft_list are what
\* they were before the call.
C4_FailedPollChangesNothing ==
    [][(pc = "loop" /\ pc' # "loop" /\ pc' # "exited" /\ poll'.raised) =>
          /\ pc' = "wait"
          /\ UNCHANGED <<last_aircraft_set, known_aircraft, radar_aircraft_list>>]_vars

\* C4 witness: a failed poll with aircraft held from earlier polls
C4_Witness ==
    /\ status = "poll_failed"
    /\ pc = "wait"
    /\ last_aircraft_set # {}
    /\ DOMAIN known_aircraft # {}
    /\ radar_aircraft_list # <<>>

\* C5: while no quit or stop has been requested, every update cycle, failed
\* or successful, is followed by another poll after the wait. (A run() that
\* ended with an exception of the key handler's redraw is not held against it.)
C5_EveryCycleFollowedByPoll ==
    (pc = "wait") ~> (pc = "loop" \/ pc = "crashed" \/ stop_requested)

\* C6: after a failed poll in interactive mode the radar display still shows
\* the aircraft of the last successful poll.
C6_RadarStillShown ==
    [][(UpdateStep /\ interactive /\ poll'.raised /\ screen = RadarScreen) =>
          /\ screen' = RadarScreen
          /\ radar_aircraft_list' = radar_aircraft_list]_vars

\* C6, amended: after a failed poll in interactive mode the radar keeps the
\* aircraft list it held, but the screen is cleared and shows the error
\* message instead of the radar.
C6_ListKeptScreenCleared ==
    [][(UpdateStep /\ interactive /\ poll'.raised) =>
          /\ screen' = ErrorScreen
          /\ radar_aircraft_list' = radar_aircraft_list]_vars

\* C6 witness: the error is on screen while the radar still holds aircraft
C6_Witness ==
    /\ interactive
    /\ status = "poll_failed"
    /\ screen = ErrorScreen
    /\ radar_aircraft_list # <<>>

\* C7: after every successful update_aircraft call the key set of
\* known_aircraft equals the id set of the list just polled.
C7_KnownKeysAreCurrentIds ==
    status = "ok" => DOMAIN known_aircraft = IdSet(poll.list)

\* C7, amended: after every update_aircraft call whose poll returned, the key
\* set of known_aircraft is its former key set plus the ids of the list just
\* polled, each listed id mapped to its record of that list; ids that
\* departed stay held.
C7_KnownKeysOnlyGrow ==
    [][(UpdateStep /\ ~poll'.raised) =>
          /\ DOMAIN known_aircraft' = (DOMAIN known_aircraft) \cup IdSet(poll'.list)
          /\ \A i \in 1..Len(poll'.list) :
                 known_aircraft'[poll'.list[i].icao24] = poll'.list[i]]_vars

\* C7 witness: a completed call after which a departed id is still held
C7_Witness ==
    /\ status = "ok"
    /\ left_aircraft # {}
    /\ left_aircraft \subseteq DOMAIN known_aircraft
    /\ DOMAIN known_aircraft # IdSet(poll.list)

\* ---------------------------------------- claims: signals, keys and outages
\* C21: after SIGINT or SIGTERM is delivered, run() stops polling and exits at
\* the next safe point, after the in-flight poll has completed or been aborted
\* and not in the middle of a redraw, and in interactive mode the terminal is
\* left restored.
C21_SignalStopsAtSafePoint ==
    pc = "exited" =>
        /\ status # "draw_interrupted"
        /\ ~running
        /\ interactive => screen = BlankScreen

\* C22: no code path of AircraftTracker terminates the process; on a quit or
\* stop request run() returns to its caller. (pc is "exited" when sys.exit
\* ended run(), "done" when run() returned.)
C22_RunNeverExitsTheProcess ==
    /\ pc # "exited"
    /\ (stop_requested /\ ~running) => pc = "done"

\* C23: in interactive mode the key press that ends the wait is the key that
\* is acted on: after a single press of 'q' run() leaves the main loop and
\* returns, with no further key press needed.
C23_SingleKeyPressIsActedOn ==
    (pc = "inkey" /\ stop_requested) ~> (pc = "done" \/ pc = "exited")

\* a step of the model in which a key press is taken or handled
KeyStep == (pc = "wait" /\ pc' = "inkey") \/ (pc = "inkey" /\ pc' # "exited")

\* C24: handling a key press ('q', 'i' or any other key) changes only the
\* running flag and the info-panel flag: last_aircraft_set, known_aircraft
\* and the radar's aircraft list are left unchanged.
C24_KeysLeaveTrackerState ==
    [][KeyStep => UNCHANGED <<last_aircraft_set, known_aircraft,
                              radar_aircraft_list, last_polled>>]_vars

\* C24 witness: an 'i' was handled (the panel is off) while aircraft are held
C24_Witness ==
    /\ ~show_info
    /\ pc = "loop"
    /\ last_aircraft_set # {}
    /\ DOMAIN known_aircraft # {}
    /\ radar_aircraft_list # <<>>

\* C25: after one or more failed polls, the arrivals and departures of the
\* next successful poll are computed against the id set of the last
\* successful poll: an aircraft present both before and after the outage is
\* not reported as arrived and triggers no alert.
C25_OutageKeepsSnapshot ==
    [][(UpdateStep /\ poll.raised /\ ~poll'.raised /\ last_polled # None) =>
          /\ new_aircraft' = IdSet(poll'.list) \ Val(last_polled)
          /\ left_aircraft' = Val(last_polled) \ IdSet(poll'.list)
          /\ IdSet(poll'.list) \subseteq Val(last_polled) => plays' = 0]_vars

\* ------------------------------------------------------ claims: the adapters
\* C9: no record with a missing or empty identifier, and no record with only
\* one of latitude and longitude, ever enters last_aircraft_set or
\* known_aircraft (ADSBexchange adapter).
C9_NoMalformedRecordTracked ==
    api = "adsbexchange" =>
        /\ \A id \in last_aircraft_set \cup DOMAIN known_aircraft : id \notin {"", Missing}
        /\ \A id \in DOMAIN known_aircraft :
               known_aircraft[id].latitude # None /\ known_aircraft[id].longitude # None

\* C10: for every HTTP response whose status is not 200 the adapter's
\* get_aircraft_in_radius raises instead of returning a list; an empty list is
\* returned only after a 200 (OpenSky adapter).
C10_Non200Raises ==
    (api = "opensky" /\ status # "none") =>
        /\ (http_status # HttpOk => poll.raised)
        /\ ((~poll.raised /\ poll.list = <<>>) => http_status = HttpOk)

\* C27: for an ADSBexchange record that reports seen = s seconds ago with
\* s > 0, parsing succeeds; a poll whose response contains such records
\* returns them instead of failing.
C27_SeenRecordsParsed ==
    (api = "adsbexchange" /\ status # "none" /\ http_status = HttpOk /\ http_seen)
        => ~poll.raised

\* C28: for every center latitude and every radius, the bounding box that
\* OpenSkyAPI.get_aircraft_in_radius requests is computed without error and
\* contains the whole circle of that radius around the center.
C28_BoxContainsCircle ==
    (api = "opensky" /\ status # "none") =>
        LET box == bounding_box(latitude, RadiusKm)
        IN  /\ ~box.raised
            /\ box.lamin <= latitude * DegUnits - circle_lat_diff(RadiusKm)
            /\ box.lamax >= latitude * DegUnits + circle_lat_diff(RadiusKm)
            /\ box.lomin <= 0 - circle_lon_diff(latitude, RadiusKm)
            /\ box.lomax >= circle_lon_diff(latitude, RadiusKm)

\* a request by `param` yields an aircraft
Yields(which, table, param) ==
    LET answer == table[StrategyIndex(param)]
    IN  answer.status = HttpOk /\ usable_flights(which, answer.body) # <<>>

\* C26: an adapter's get_aircraft_by_callsign that has several lookup
\* strategies tries them in the order IATA code, ICAO code, flight number,
\* issues no request after the first strategy that yields an aircraft, and
\* returns None only if every strategy yields none.
C26_StrategiesInOrder ==
    requests # <<>> =>
        /\ requests[1] = Strategies[1]
        /\ \A i, j \in 1..Len(requests) :
               i < j => StrategyIndex(requests[i]) < StrategyIndex(requests[j])
        /\ \A i \in 1..(Len(requests) - 1) : ~Yields(api, answers, requests[i])
        /\ (~lookup_result.raised /\ lookup_result.aircraft = None) =>
               \A k \in 1..Len(strategies_of(api)) :
                   ~Yields(api, answers, strategies_of(api)[k])

\* ------------------------------------------------------- claims: MockAPI
\* C8: MockAPI.get_aircraft_in_radius(lat, lon, r) returns exactly the live
\* simulated entities that have a position and whose distance from (lat, lon)
\* after the tick is at most r (boundary included), each once.
C8_MockReturnsExactlyInRadius ==
    \A r \in Radii :
        /\ \A i \in 1..Len(mock_result) :
               /\ mock_result[i].latitude # None
               /\ Abs(Val(mock_result[i].latitude)) <= r
               /\ \E j \in 1..Len(aircraft_cache) : aircraft_cache[j] = mock_result[i]
        /\ \A j \in 1..Len(aircraft_cache) :
               (aircraft_cache[j].latitude # None
                    /\ Abs(Val(aircraft_cache[j].latitude)) <= r)
               => \E i \in 1..Len(mock_result) : mock_result[i] = aircraft_cache[j]
        /\ \A i, k \in 1..Len(mock_result) :
               mock_result[i].icao24 = mock_result[k].icao24 => i = k

\* C8 witness: one entity exactly on the circle is returned, another one
\* beyond it is live and not returned
C8_Witness ==
    \E r \in Radii :
        /\ Len(mock_result) = 1
        /\ Abs(Val(mock_result[1].latitude)) = r
        /\ Len(aircraft_cache) = 2

\* C29: in every reachable simulator state the number of live entities is at
\* most num_aircraft, and every effective tick (elapsed >= 1 s) ends with
\* exactly num_aircraft live entities.
C29_CacheSize ==
    /\ Len(aircraft_cache) <= num_aircraft
    /\ \A i, j \in 1..Len(aircraft_cache) :
           aircraft_cache[i].icao24 = aircraft_cache[j].icao24 => i = j
    /\ (mock_calls > 0 /\ mock_time_diff >= 1 * TicksPerSecond)
           => Len(aircraft_cache) = num_aircraft

\* C29 witness: two effective ticks of a simulator of two aircraft
C29_Witness ==
    /\ num_aircraft = 2
    /\ mock_calls = 2
    /\ mock_time_diff >= 1 * TicksPerSecond
    /\ last_update > mock_time_diff
    /\ Len(aircraft_cache) = 2

\* the entry of a cache under an id
Entry(cache, id) == cache[CHOOSE i \in 1..Len(cache) : cache[i].icao24 = id]

C12_FirstTickFills ==
    mock_calls = 1 => Len(aircraft_cache) = num_aircraft

\* C13: the first get_aircraft_in_radius call on a freshly constructed MockAPI
\* with num_aircraft >= 1 returns at least one aircraft.
C13_FirstCallReturnsAircraft ==
    (mock_calls = 1 /\ num_aircraft >= 1) => Len(mock_result) >= 1

\* C14: every entity spawned while serving get_aircraft_in_radius(lat, lon, r)
\* is placed at a distance from (lat, lon) between 0.8 r and 1.5 r.
C14_SpawnedWithinQueryRing ==
    [][\A r \in Radii : \A j \in 1..Len(aircraft_cache') :
          aircraft_cache'[j].icao24 \notin CacheIds(aircraft_cache) =>
              /\ 10 * distance(aircraft_cache'[j]) >= 8 * r
              /\ 10 * distance(aircraft_cache'[j]) <= 15 * r]_vars

\* C15: at the end of an effective tick (elapsed >= 1 s) serving a query of
\* radius r, an entity that was advanced in the tick has been retired if and
\* only if its new distance from the query center exceeds 2 r.
C15_RetiredIffBeyondTwiceRadius ==
    [][mock_time_diff' >= 1 * TicksPerSecond =>
          \A r \in Radii : \A i \in 1..Len(aircraft_cache) :
              LET a == advance(aircraft_cache[i], mock_time_diff')
                  kept == \E j \in 1..Len(aircraft_cache') : aircraft_cache'[j] = a
              IN  ~kept <=> distance(a) > 2 * r]_vars

\* C16: for every id in the simulator cache, the heading and velocity stored
\* under that id stay the same from the tick in which the entity is spawned
\* until it is retired, across any sequence of ticks and spawns.
C16_MotionVectorKept ==
    [][\A r \in Radii : \A i \in 1..Len(aircraft_cache) :
          LET a == aircraft_cache[i]
          IN  (/\ a.icao24 \in CacheIds(aircraft_cache')
               /\ ~retired(advance(a, mock_time_diff'), r * 3))
              => /\ Entry(aircraft_cache', a.icao24).heading = a.heading
                 /\ Entry(aircraft_cache', a.icao24).velocity = a.velocity]_vars

\* C18: after a tick with elapsed time t >= 1 s, every entity that was live
\* before the tick and is still live has been displaced by velocity * t metres
\* along its heading, so its position differs from its position before it.
C18_DisplacedByVelocityTimesT ==
    [][mock_time_diff' >= 1 * TicksPerSecond =>
          \A r \in Radii : \A i \in 1..Len(aircraft_cache) :
              LET a == aircraft_cache[i]
                  metres == (Val(a.velocity) * mock_time_diff') \div TicksPerSecond
              IN  (/\ a.icao24 \in CacheIds(aircraft_cache')
                   /\ ~retired(advance(a, mock_time_diff'), r * 3))
                  => /\ Val(Entry(aircraft_cache', a.icao24).latitude) * 100
                          = Val(a.latitude) * 100 + metres * Cos(Val(a.heading))
                     /\ Entry(aircraft_cache', a.icao24).latitude # a.latitude]_vars

\* --------------------------------------------- claims: the seeded generator
\* C17: for every seed and every sequence of elapsed-time ticks, two
\* simulators constructed with that seed and driven by that sequence (in two
\* runs or in the same process) produce the same sequence of spawned ids,
\* positions and retirements.
C17_SameSeedSameHistory ==
    \A a, b \in Sims :
        (/\ sims[a].made /\ sims[b].made
         /\ sims[a].seed = sims[b].seed
         /\ sims[a].ticks = sims[b].ticks)
        => sims[a].log = sims[b].log

\* ------------------------------------------------ claims: callsign lookup
\* the spellings of a generated callsign in other letter cases and with
\* surrounding whitespace
Spellings(callsign) ==
    IF callsign = "SWR100" THEN {"SWR100", "swr100", " Swr100 "}
    ELSE IF callsign = "DLH200" THEN {"DLH200", "dlh200 "}
    ELSE {callsign}

\* C19: for the callsign of any entity in the simulator cache, given in any
\* letter case and with surrounding whitespace, get_aircraft_by_callsign
\* returns an entity of the cache whose callsign matches; for a callsign no
\* cached entity has it returns None; in both cases the call moves, spawns
\* and retires no entity.
C19_LookupByCallsign ==
    [][callsign_result'.called =>
          LET q == callsign_result'.query
              found == callsign_result'.found
              holders == {i \in 1..Len(aircraft_cache) :
                             q \in Spellings(aircraft_cache[i].callsign)}
          IN  /\ holders # {} =>
                     /\ found # None
                     /\ \E i \in holders : aircraft_cache[i] = Val(found)
              /\ holders = {} => found = None
              /\ aircraft_cache' = aircraft_cache
              /\ last_update' = last_update]_vars

\* C19 witness: the callsign was given in mixed case between blanks, and the
\* second entity of the cache was found
C19_Witness ==
    /\ callsign_result.called
    /\ callsign_result.query = " Swr100 "
    /\ Len(aircraft_cache) = 2
    /\ callsign_result.found = Some(aircraft_cache[2])
    /\ aircraft_cache[1].callsign = "DLH200"

\* ------------------------------------------------------ claims: the radar
\* a step that is a RadarDisplay.draw()
DrawStep == glyphs' # glyphs \/ screen' # screen

\* C20: when the radar center is unset or the aircraft has no position, the
\* projection yields a "not displayable" result, and no aircraft glyph is
\* drawn for that aircraft at any screen cell.
C20_NotDisplayableNotDrawn ==
    [][DrawStep =>
          \A i \in 1..Len(radar_aircraft_list) :
              LET a == radar_aircraft_list[i]
                  xy == calculate_screen_position(radar_center, a, RadiusKm)
              IN  (radar_center = None \/ a.latitude = None \/ a.longitude = None)
                  => /\ xy = None \/ ~OnScreen(Val(xy))
                     /\ \A g \in glyphs' : g.icao24 # a.icao24]_vars

\* C30: when the info panel is shown and the terminal has enough rows, the
\* panel lists every aircraft of the current list that has a position, one
\* row each, in order of nondecreasing distance from the center.
C30_PanelListsAllByDistance ==
    [][(DrawStep /\ show_info /\ radar_center # None
            /\ Len(radar_aircraft_list) + 4 <= TermHeight - 2) =>
          LET list == radar_aircraft_list
              positioned == {i \in 1..Len(list) : HasPosition(list[i])}
          IN  /\ Len(panel_rows') = Cardinality(positioned)
              /\ \A i \in positioned :
                     \E k \in 1..Len(panel_rows') : panel_rows'[k] = list[i]
              /\ \A k \in 1..(Len(panel_rows') - 1) :
                     panel_distance(radar_center, panel_rows'[k])
                         <= panel_distance(radar_center, panel_rows'[k + 1])]_vars

====
